---------------------------- MODULE Spec2Model ----------------------------
(***************************************************************************)
(* Model of the Japanese Twitter keyword extractor (src/main.py) and of    *)
(* its polling variant (src/kyomei-live/main.py).                          *)
(*                                                                         *)
(* A text is a sequence of Unicode code points, a word (token, keyword)    *)
(* is a text.  The regular expressions and the rule tables of the source   *)
(* are written out over code points, so that cleaning, segmentation and    *)
(* classification compute what the Python code computes.                   *)
(***************************************************************************)
EXTENDS Integers, Sequences, FiniteSets

VARIABLES
    BEARER_TOKEN,         \* TRUE iff the credential is set in the environment
    keyword_counter,      \* Counter(): the dict's items, in insertion order
    recent_tweets,        \* list of tweet_data
    tweet_count,          \* global tweet_count
    connection_attempts,  \* global connection_attempts
    start_time,           \* global start_time ("unset" before __main__ ran)
    clock,                \* time.time()
    pc,                   \* where the start_twitter_stream thread stands
    stream,               \* the tweepy stream started by stream.filter
    sleeps,               \* the arguments of time.sleep so far, in order
    clients,              \* the connected Socket.IO clients
    out,                  \* what the last step emitted or returned
    processed,            \* corpus indices of the records that passed the
                          \* language filter since the last reset (history)
    thread,               \* the frame of on_tweet in the stream's thread,
                          \* when its statements are taken one at a time
    tasks,                \* kyomei-live: the background tasks that run
                          \* fetch_and_push_words, in the order they started
    call                  \* a call of a KeywordExtractor function by itself:
                          \* the function, its argument and what it returned

vars == << BEARER_TOKEN, keyword_counter, recent_tweets, tweet_count,
           connection_attempts, start_time, clock, pc, stream, sleeps,
           clients, out, processed, thread, tasks, call >>

\* the stream's thread is not inside on_tweet
idle == [ pc |-> "idle", stale |-> FALSE, i |-> 0, count |-> 0,
          keywords |-> << >>, n |-> 0, top_keywords |-> << >>,
          tweet_data |-> << >> ]

\* no function has been called
no_call == [ fn |-> "none", arg |-> << >>, ret |-> << >> ]

---------------------------------------------------------------------------
(* Sequences.                                                              *)

Range(s) == { s[i] : i \in DOMAIN s }

InList(x, L) == \E i \in DOMAIN L : L[i] = x

Min(a, b) == IF a <= b THEN a ELSE b

Max(a, b) == IF a >= b THEN a ELSE b

\* s[i..] starts with p
HasPrefixAt(s, i, p) ==
    /\ i + Len(p) - 1 <= Len(s)
    /\ \A k \in 1..Len(p) : s[i + k - 1] = p[k]

\* str.endswith
EndsWith(s, p) ==
    /\ Len(p) <= Len(s)
    /\ \A k \in 1..Len(p) : s[Len(s) - Len(p) + k] = p[k]

Reverse(s) == [ i \in 1..Len(s) |-> s[Len(s) + 1 - i] ]

\* the least and the greatest element of a non-empty set of integers
Least(S) == CHOOSE x \in S : \A y \in S : x <= y

Greatest(S) == CHOOSE x \in S : \A y \in S : x >= y

\* A loop over lo..hi is computed half by half.  TLC computes a LET
\* definition when it is first read; Done(v) reads v, so that the state
\* after the first half is computed before the second half is entered.
Done(v) == v = v

\* the elements of s in order of first occurrence
FirstOccurrences(s) ==
    LET first == SelectSeq([ i \in 1..Len(s) |-> i ],
                           LAMBDA i : \A j \in 1..(i - 1) : s[j] # s[i])
    IN  [ n \in DOMAIN first |-> s[first[n]] ]

\* all lists that hold each element of S once
RECURSIVE Orderings(_)
Orderings(S) ==
    IF S = {} THEN { << >> }
    ELSE UNION { { << x >> \o p : p \in Orderings(S \ { x }) } : x \in S }

---------------------------------------------------------------------------
(* Character classes of the regular expressions (Python 3 str patterns).   *)

IsHiragana(c) == c \in 12353..12435                    \* [ぁ-ん]
IsKatakana(c) == c \in 12449..12531                    \* [ァ-ン]
IsKanji(c)    == c \in 19968..40869                    \* [一-龥]
IsLatin(c)    == c \in 65..90 \/ c \in 97..122         \* [A-Za-z]
IsNumber(c)   == c \in 48..57 \/ c \in 65296..65305    \* [0-9０-９]
\* \s on a str pattern: the characters str.isspace() accepts
IsSpace(c) ==
    \/ c \in 9..13 \/ c \in 28..32 \/ c = 133 \/ c = 160 \/ c = 5760
    \/ c \in 8192..8202 \/ c = 8232 \/ c = 8233 \/ c = 8239 \/ c = 8287
    \/ c = 12288
\* [#＃@]
IsTagMarker(c) == c = 35 \/ c = 65283 \/ c = 64
\* [A-Za-z0-9_ぁ-んァ-ン一-龥]
IsTagBody(c) ==
    \/ IsLatin(c) \/ c \in 48..57 \/ c = 95
    \/ IsHiragana(c) \/ IsKatakana(c) \/ IsKanji(c)
\* [ぁ-んー]
IsHiraganaOrBar(c) == IsHiragana(c) \/ c = 12540

---------------------------------------------------------------------------
(* KeywordExtractor.clean_text: four re.sub passes, then strip().  re.sub  *)
(* scans the text from the left and replaces the non-overlapping matches;  *)
(* every + is greedy.                                                      *)

\* the index after the run of \S characters that starts at i
SkipNonSpace(s, i) ==
    Least({ j \in i..(Len(s) + 1) : j > Len(s) \/ IsSpace(s[j]) })

\* the index after the run of \s characters that starts at i
SkipSpace(s, i) ==
    Least({ j \in i..(Len(s) + 1) : j > Len(s) \/ ~IsSpace(s[j]) })

\* the index after the run of tag body characters that starts at i
SkipTagBody(s, i) ==
    Least({ j \in i..(Len(s) + 1) : j > Len(s) \/ ~IsTagBody(s[j]) })

\* r'https?://\S+' matched at i: the index after the match, 0 if no match
UrlMatchEnd(s, i) ==
    LET p == IF HasPrefixAt(s, i, <<104, 116, 116, 112, 115, 58, 47, 47>>)
             THEN i + 8
             ELSE IF HasPrefixAt(s, i, <<104, 116, 116, 112, 58, 47, 47>>)
             THEN i + 7
             ELSE 0
    IN  IF p > 0 /\ p <= Len(s) /\ ~IsSpace(s[p]) THEN SkipNonSpace(s, p) ELSE 0

\* r'[#＃@][A-Za-z0-9_ぁ-んァ-ン一-龥]+' matched at i
TagMatchEnd(s, i) ==
    IF IsTagMarker(s[i]) /\ i + 1 <= Len(s) /\ IsTagBody(s[i + 1])
    THEN SkipTagBody(s, i + 1) ELSE 0

\* r'RT\s+' matched at i
RtMatchEnd(s, i) ==
    IF HasPrefixAt(s, i, <<82, 84>>) /\ i + 2 <= Len(s) /\ IsSpace(s[i + 2])
    THEN SkipSpace(s, i + 2) ELSE 0

\* r'\s+' matched at i
SpaceMatchEnd(s, i) == IF IsSpace(s[i]) THEN SkipSpace(s, i) ELSE 0

\* the four patterns of clean_text and what each match is replaced by
MatchEnd(pattern, s, i) ==
    CASE pattern = "url" -> UrlMatchEnd(s, i)
      [] pattern = "tag" -> TagMatchEnd(s, i)
      [] pattern = "rt" -> RtMatchEnd(s, i)
      [] pattern = "space" -> SpaceMatchEnd(s, i)

Replacement(pattern) == IF pattern = "space" THEN << 32 >> ELSE << >>

\* re.sub at character i: scan.text is the output so far, scan.next the
\* index where the search for the next match goes on
sub_step(pattern, s, scan, i) ==
    IF i < scan.next THEN scan
    ELSE LET e == MatchEnd(pattern, s, i)
         IN  IF e > 0
             THEN [ text |-> scan.text \o Replacement(pattern), next |-> e ]
             ELSE [ text |-> Append(scan.text, s[i]), next |-> i + 1 ]

\* sub_step at the characters lo..hi in turn
RECURSIVE sub_scan(_, _, _, _, _)
sub_scan(pattern, s, scan, lo, hi) ==
    IF lo > hi THEN scan
    ELSE IF lo = hi THEN sub_step(pattern, s, scan, lo)
    ELSE LET mid == (lo + hi) \div 2
             left == sub_scan(pattern, s, scan, lo, mid)
         IN  IF Done(left) THEN sub_scan(pattern, s, left, mid + 1, hi)
             ELSE left

\* re.sub(pattern, replacement, s)
re_sub(pattern, s) ==
    sub_scan(pattern, s, [ text |-> << >>, next |-> 1 ], 1, Len(s)).text

\* str.strip()
strip(s) ==
    LET kept == { j \in DOMAIN s : ~IsSpace(s[j]) }
    IN  IF kept = {} THEN << >> ELSE SubSeq(s, Least(kept), Greatest(kept))

\* a cleaning that keeps the RT marker
clean_text_keeping_rt(text) ==
    strip(re_sub("space", re_sub("tag", re_sub("url", text))))

clean_text(text) ==
    strip(re_sub("space", re_sub("rt", re_sub("tag", re_sub("url", text)))))

---------------------------------------------------------------------------
(* KeywordExtractor.tokenize_japanese                                      *)

get_char_type(char) ==
    IF IsHiragana(char) THEN "hiragana"
    ELSE IF IsKatakana(char) THEN "katakana"
    ELSE IF IsKanji(char) THEN "kanji"
    ELSE IF IsLatin(char) THEN "latin"
    ELSE IF IsNumber(char) THEN "number"
    ELSE IF IsSpace(char) THEN "space"
    ELSE "other"

\* a loop body that ends the token at every character
tokenize_step_by_character(text, loop, i) ==
    LET char      == text[i]
        char_type == get_char_type(char)
        cut       == loop.current_token # << >>
        tokens    == IF cut /\ loop.current_type # "space"
                     THEN Append(loop.tokens, loop.current_token)
                     ELSE loop.tokens
        token     == IF cut THEN << >> ELSE loop.current_token
    IN  [ tokens |-> tokens,
          current_token |-> IF char_type # "space"
                            THEN Append(token, char) ELSE token,
          current_type |-> char_type ]

\* the body of the for loop at character i
tokenize_step(text, loop, i) ==
    LET char      == text[i]
        char_type == get_char_type(char)
        cut       == char_type # loop.current_type /\ loop.current_token # << >>
        tokens    == IF cut /\ loop.current_type # "space"
                     THEN Append(loop.tokens, loop.current_token)
                     ELSE loop.tokens
        token     == IF cut THEN << >> ELSE loop.current_token
    IN  [ tokens |-> tokens,
          current_token |-> IF char_type # "space"
                            THEN Append(token, char) ELSE token,
          current_type |-> char_type ]

\* the for loop over the characters lo..hi
RECURSIVE tokenize_loop(_, _, _, _)
tokenize_loop(text, loop, lo, hi) ==
    IF lo > hi THEN loop
    ELSE IF lo = hi THEN tokenize_step(text, loop, lo)
    ELSE LET mid == (lo + hi) \div 2
             left == tokenize_loop(text, loop, lo, mid)
         IN  IF Done(left) THEN tokenize_loop(text, left, mid + 1, hi)
             ELSE left

tokenize_japanese(text) ==
    LET loop == tokenize_loop(text, [ tokens |-> << >>,
                                      current_token |-> << >>,
                                      current_type |-> "" ], 1, Len(text))
    IN  IF loop.current_token # << >> /\ loop.current_type # "space"
        THEN Append(loop.tokens, loop.current_token) ELSE loop.tokens

---------------------------------------------------------------------------
(* The rule tables: each word as its code points, in the source's order.   *)

STOP_WORDS ==
    << <<12371, 12428>>, <<12381, 12428>>, <<12354, 12428>>, <<12371, 12398>>,
    <<12381, 12398>>, <<12354, 12398>>, <<12371, 12371>>, <<12381, 12371>>,
    <<12354, 12381, 12371>>, <<12371, 12385, 12425>>, <<12393, 12371>>,
    <<12384, 12428>>, <<12394, 12395>>, <<12394, 12435>>, <<12394, 12435, 12398>>,
    <<12356, 12388>>, <<12393, 12358, 12375, 12390>>, <<12364>>, <<12398>>, <<12434>>,
    <<12395>>, <<12408>>, <<12392>>, <<12363, 12425>>, <<12424, 12426>>, <<12391>>,
    <<12420>>, <<12399>>, <<12398, 12391>>, <<12398, 12395>>, <<12400>>, <<12390>>,
    <<12387, 12390>>, <<12391, 12418>>, <<12375>>, <<12384, 12369>>, <<12384, 12398>>,
    <<12369, 12393>>, <<12369, 12428, 12393>>, <<12369, 12428, 12393, 12418>>,
    <<12384, 12429, 12358>>, <<12391, 12375, 12423, 12358>>, <<12394, 12364, 12425>>,
    <<12391, 12377>>, <<12414, 12377>>, <<12391, 12375, 12383>>,
    <<12414, 12375, 12383>>, <<12384, 12387, 12383>>, <<12396>>, <<12383>>, <<12358>>,
    <<12424, 12358>>, <<12394, 12356>>, <<12379, 12427>>, <<12373, 12379, 12427>>,
    <<12428, 12427>>, <<12425, 12428, 12427>>, <<12375, 12414, 12358>>,
    <<12367, 12384, 12373, 12356>>, <<12375, 12363, 12375>>, <<12384, 12364>>,
    <<12383, 12384, 12375>>, <<12383, 12384>>, <<12394, 12398, 12391>>,
    <<12375, 12383, 12364, 12387, 12390>>, <<12425, 12375, 12356>>,
    <<12415, 12383, 12356>>, <<12381, 12358>>, <<12424, 12358>>, <<12409, 12365>>,
    <<12399, 12378>>, <<12394, 12369, 12428, 12400>>, <<12356, 12427>>,
    <<12354, 12427>>, <<12377, 12427>>, <<12394, 12427>>, <<12367, 12427>>,
    <<12356, 12367>>, <<12391, 12365, 12427>>, <<12390, 12427>>, <<12383, 12356>>,
    <<12383, 12425>>, <<12394, 12425>>, <<12428, 12427>>, <<12425, 12428>>,
    <<12379, 12427>>, <<12373, 12379>>, <<12394, 12356>>, <<12356, 12356>>,
    <<12424, 12356>>, <<12377, 12372, 12356>>, <<12411, 12375, 12356>>,
    <<12418, 12358>>, <<12414, 12384>>, <<12414, 12383>>, <<12373, 12425, 12395>>,
    <<12394, 12362>>, <<12392, 12390, 12418>>, <<12363, 12394, 12426>>,
    <<12377, 12372, 12367>>, <<12392, 12387, 12390, 12418>>, <<12363, 12394, 12426>>,
    <<12385, 12423, 12387, 12392>>, <<12354, 12414, 12426>>, <<12418, 12387, 12392>>,
    <<12381, 12398, 19978>>, <<12381, 12428, 12363, 12425>>, <<12381, 12428, 12391>>,
    <<12381, 12428, 12391, 12399>>, <<12375, 12383, 12364, 12387, 12390>>,
    <<12381, 12398, 12383, 12417>>, <<12384, 12363, 12425>>, <<12388, 12414, 12426>>,
    <<12377, 12394, 12431, 12385>>, <<12383, 12392, 12360, 12400>>, <<12391, 12418>>,
    <<12375, 12363, 12375>>, <<12384, 12369, 12393>>, <<12392, 12371, 12429, 12391>>,
    <<12373, 12390>>, <<12394, 12425, 12403, 12395>>, <<12362, 12424, 12403>>,
    <<12414, 12383, 12399>>, <<12354, 12427, 12356, 12399>>, <<12373, 12425, 12395>>,
    <<12383, 12384, 12375>>, <<12383, 12384>>, <<12376, 12419>>, <<12375, 12414>>,
    <<12379, 12435>>, <<12431, 12394>>, <<12377, 12397>>, <<12363, 12394>>,
    <<12424, 12397>>, <<12375, 12415>>, <<12358, 12435>>, <<12360, 12387>>,
    <<12399, 12390>>, <<12354, 12398>>, <<12399, 12356>>, <<12356, 12420>>,
    <<12362, 12540>>, <<12362, 12362>>, <<12362, 12387>>, <<12431>>, <<12424>>,
    <<12397>>, <<12394>>, <<12398, 12424>>, <<12398, 12397>>, <<12431, 12424>>,
    <<12431, 12397>>, <<12363, 12375, 12425>>, <<12371, 12392>>, <<12418, 12398>>,
    <<12383, 12417>>, <<12392, 12371, 12429>>, <<12420, 12388>>, <<12431, 12369>>,
    <<12392, 12365>>, <<12411, 12358>>, <<12373>>, <<12415>>, <<12370>>,
    <<12414, 12414>>, <<12372, 12392>>, <<12364, 12385>>, <<12387, 12413, 12356>>,
    <<12364, 12383, 12356>>, <<82, 84>>, <<104, 116, 116, 112>>,
    <<104, 116, 116, 112, 115>>, <<99, 111>>, <<106, 112>>, <<99, 111, 109>>,
    <<119, 119, 119>>, <<12484, 12452, 12540, 12488>>,
    <<12522, 12484, 12452, 12540, 12488>>, <<12501, 12457, 12525, 12540>>,
    <<12522, 12503>>, <<12356, 12356, 12397>> >>

NOUN_SUFFIXES ==
    << <<24615>>, <<21270>>, <<32773>>, <<25163>>, <<24107>>, <<23478>>, <<21729>>,
    <<38263>>, <<27096>>, <<27663>>, <<29987>>, <<20154>>, <<30340>>, <<30028>>,
    <<22580>>, <<24066>>, <<30476>>, <<37117>>, <<24220>>, <<20826>> >>

verb_endings ==
    << <<12377, 12427>>, <<12379, 12427>>, <<12373, 12379, 12427>>, <<12428, 12427>>,
    <<12425, 12428, 12427>>, <<12375, 12414, 12358>>, <<12394, 12427>>,
    <<12383, 12356>>, <<12409, 12365>>, <<12414, 12377>>, <<12414, 12375, 12383>>,
    <<12414, 12379, 12435>>, <<12414, 12375, 12383>>, <<12390, 12356, 12427>>,
    <<12390, 12356, 12383>>, <<12390, 12356, 12394, 12356>> >>

conjugation_endings ==
    << <<12358>>, <<12367>>, <<12368>>, <<12377>>, <<12388>>, <<12396>>, <<12406>>,
    <<12416>>, <<12427>>, <<12387, 12383>>, <<12356, 12383>>, <<12356, 12384>>,
    <<12375, 12383>>, <<12387, 12383>>, <<12435, 12384>>, <<12435, 12384>>,
    <<12435, 12384>>, <<12387, 12383>>, <<12387, 12390>>, <<12356, 12390>>,
    <<12356, 12391>>, <<12375, 12390>>, <<12387, 12390>>, <<12435, 12391>>,
    <<12435, 12391>>, <<12435, 12391>>, <<12387, 12390>> >>

adj_endings ==
    << <<12356>>, <<12363, 12387, 12383>>, <<12367, 12394, 12356>>, <<12367, 12390>>,
    <<12369, 12428, 12400>>, <<12381, 12358>>, <<12377, 12366, 12427>>,
    <<12377, 12366>>, <<12370>>, <<12415>>, <<30340>>, <<12425, 12375, 12356>>,
    <<12387, 12413, 12356>>, <<12415, 12383, 12356>> >>

adj_words ==
    << <<12356, 12356>>, <<12424, 12356>>, <<12377, 12372, 12356>>,
    <<12391, 12363, 12356>>, <<12385, 12356, 12373, 12356>>, <<23567, 12373, 12356>>,
    <<22823, 12365, 12356>>, <<36196, 12356>>, <<38738, 12356>>, <<30333, 12356>>,
    <<40658, 12356>>, <<32654, 12375, 12356>>, <<37276, 12356>>, <<36933, 12356>>,
    <<36895, 12356>> >>

\* SUSPICIOUS_PATTERNS, the six literal ones
SUSPICIOUS_LITERALS ==
    << <<12375, 12415, 12391, 12377>>, <<12358, 12435, 12391, 12377>>,
       <<12363, 12394, 12391, 12377>>, <<12424, 12397, 12391, 12377>>,
       <<12376, 12419, 12391, 12377>>, <<12360, 12387, 12391, 12377>> >>

\* SUSPICIOUS_PATTERNS, the copulas of r'[ぁ-んー]{1,2}です' and
\* r'[ぁ-んー]{1,2}ます'
SUSPICIOUS_COPULAS == << <<12391, 12377>>, <<12414, 12377>> >>

\* re.match(pattern, word) for some pattern of SUSPICIOUS_PATTERNS
MatchesSuspicious(word) ==
    \/ \E i \in DOMAIN SUSPICIOUS_LITERALS :
          HasPrefixAt(word, 1, SUSPICIOUS_LITERALS[i])
    \/ \E i \in DOMAIN SUSPICIOUS_COPULAS : \E n \in 1..2 :
          /\ n <= Len(word)
          /\ \A k \in 1..n : IsHiraganaOrBar(word[k])
          /\ HasPrefixAt(word, n + 1, SUSPICIOUS_COPULAS[i])

\* where $ matches in word: at its end, and before a final newline
LineEnds(word) ==
    { Len(word) } \cup
    (IF word # << >> /\ word[Len(word)] = 10 THEN { Len(word) - 1 } ELSE {})

---------------------------------------------------------------------------
(* KeywordExtractor.is_likely_noun / is_likely_verb / is_likely_adjective  *)

is_likely_noun(word) ==
    IF InList(word, STOP_WORDS) THEN FALSE
    ELSE IF Len(word) = 1 THEN IsKanji(word[1])
    ELSE IF MatchesSuspicious(word) THEN FALSE
    ELSE IF \E i \in DOMAIN NOUN_SUFFIXES : EndsWith(word, NOUN_SUFFIXES[i])
         THEN TRUE
    ELSE IF \E k \in DOMAIN word : IsKanji(word[k]) THEN TRUE
    ELSE IF \E e \in LineEnds(word) :
               e >= 1 /\ \A k \in 1..e : IsKatakana(word[k])
         THEN TRUE
    ELSE IF /\ \E k \in DOMAIN word : IsKatakana(word[k])
            /\ \E k \in DOMAIN word : IsKanji(word[k])
         THEN TRUE
    ELSE Len(word) >= 2

is_likely_verb(word) ==
    IF InList(word, STOP_WORDS) THEN FALSE
    ELSE IF Len(word) < 2 THEN FALSE
    ELSE IF \E i \in DOMAIN verb_endings : EndsWith(word, verb_endings[i])
         THEN TRUE
    ELSE \* re.search(r'[一-龥][ぁ-ん]+$', word)
         /\ \E j \in DOMAIN word : \E e \in LineEnds(word) :
               /\ IsKanji(word[j])
               /\ j + 1 <= e
               /\ \A k \in (j + 1)..e : IsHiragana(word[k])
         /\ \E i \in DOMAIN conjugation_endings :
               EndsWith(word, conjugation_endings[i])

is_likely_adjective(word) ==
    IF InList(word, STOP_WORDS) THEN FALSE
    ELSE IF Len(word) < 2 THEN FALSE
    ELSE IF InList(word, adj_words) THEN TRUE
    ELSE \E i \in DOMAIN adj_endings :
            /\ EndsWith(word, adj_endings[i])
            /\ ~(adj_endings[i] = << 30340 >> /\ is_likely_noun(word))

---------------------------------------------------------------------------
(* KeywordExtractor.extract_keywords                                       *)

\* the loop's filter: token is appended to keywords
is_keyword(token) ==
    /\ ~InList(token, STOP_WORDS)
    /\ ~(Len(token) < 2 /\ ~IsKanji(token[1]))
    /\ (is_likely_noun(token) \/ is_likely_verb(token)
        \/ is_likely_adjective(token))

\* the list `keywords` when the loop ends: the accepted tokens in text
\* order, a token once for each of its occurrences
accepted_tokens(text) ==
    LET cleaned_text == clean_text(text)
        tokens == IF cleaned_text = << >> THEN << >>
                  ELSE tokenize_japanese(cleaned_text)
    IN  SelectSeq(tokens, is_keyword)

\* The orders list(set(...)) can give a set of strings: the iteration order
\* of a set of str depends on the process's hash seed.  All orders up to
\* MaxPermuted elements, above that the two ends of the range.
MaxPermuted == 3

set_orders(items) ==
    LET once == FirstOccurrences(items)
    IN  IF Len(once) <= MaxPermuted THEN Orderings(Range(once))
        ELSE { once, Reverse(once) }

\* extract_keywords without set(): the loop's list as it is
extract_keywords_raw(text) == { accepted_tokens(text) }

\* the lists extract_keywords(text) may return
extract_keywords(text) == set_orders(accepted_tokens(text))

---------------------------------------------------------------------------
(* The records the source can deliver.                                     *)

MOST_COMMON_N == 50     \* keyword_counter.most_common(50)
MAX_TWEETS == 100
MAX_SLEEP == 120        \* min(120, ...)
STATS_EVERY == 10       \* tweet_count % 10 == 0

\* one more ideograph than a ranking holds, separated by spaces; the last
\* one is 祈 (31048), which WordsText holds too
WideText ==
    [ i \in 1..(2 * MOST_COMMON_N + 1) |->
        IF i % 2 = 0 THEN 32
        ELSE IF i = 2 * MOST_COMMON_N + 1 THEN 31048
        ELSE 20000 + i ]

\* "平和と平和": the keyword 平和 twice in one record
PeaceText == << 24179, 21644, 12392, 24179, 21644 >>

\* "祈り 共鳴": the keywords 祈 and 共鳴
WordsText == << 31048, 12426, 32, 20849, 40180 >>

\* "peace now"
LatinText == << 112, 101, 97, 99, 101, 32, 110, 111, 119 >>

Corpus ==
    << [ id |-> 1, lang |-> "ja", text |-> PeaceText ],
       [ id |-> 2, lang |-> "ja", text |-> WordsText ],
       [ id |-> 3, lang |-> "en", text |-> LatinText ],
       [ id |-> 4, lang |-> "ja", text |-> WideText ] >>

\* extract_keywords and its loop's list for each record, computed once
extracted == [ i \in DOMAIN Corpus |-> extract_keywords(Corpus[i].text) ]

accepted == [ i \in DOMAIN Corpus |-> accepted_tokens(Corpus[i].text) ]

---------------------------------------------------------------------------
(* Bounds of the model.                                                    *)

MaxFailures == 2    \* failed connection attempts, with the whole server
MaxBackoff == 8     \* failed connection attempts, with the ingestion alone
MaxProcessed == 2   \* records processed between two resets
MaxCount == 10      \* on_tweet calls between two resets
MaxClock == 1       \* clock ticks
MaxClients == 2     \* Socket.IO clients
MaxHistory == 102   \* records processed between two resets, for the history

\* the records without the wide one
ShortRecords == { i \in DOMAIN Corpus : Len(Corpus[i].text) < MOST_COMMON_N }

\* the records that pass the language filter of on_tweet
JapaneseRecords == { i \in DOMAIN Corpus : Corpus[i].lang = "ja" }

---------------------------------------------------------------------------
(* collections.Counter                                                     *)

\* counter[keyword], 0 for a missing key
count_of(counter, keyword) ==
    IF \E i \in DOMAIN counter : counter[i][1] = keyword
    THEN counter[CHOOSE i \in DOMAIN counter : counter[i][1] = keyword][2]
    ELSE 0

\* counter[keyword] += 1: a new key goes to the end of the dict
increment(counter, keyword) ==
    IF \E i \in DOMAIN counter : counter[i][1] = keyword
    THEN [ i \in DOMAIN counter |->
             IF counter[i][1] = keyword
             THEN << keyword, counter[i][2] + 1 >> ELSE counter[i] ]
    ELSE Append(counter, << keyword, 1 >>)

\* for keyword in keywords[lo..hi]: keyword_counter[keyword] += 1
RECURSIVE increment_each(_, _, _, _)
increment_each(counter, keywords, lo, hi) ==
    IF lo > hi THEN counter
    ELSE IF lo = hi THEN increment(counter, keywords[lo])
    ELSE LET mid == (lo + hi) \div 2
             left == increment_each(counter, keywords, lo, mid)
         IN  IF Done(left) THEN increment_each(left, keywords, mid + 1, hi)
             ELSE left

\* the counts of this record alone, in a Counter of their own
increment_all_fresh(counter, keywords) ==
    increment_each(<< >>, keywords, 1, Len(keywords))

increment_all(counter, keywords) ==
    increment_each(counter, keywords, 1, Len(keywords))

\* a sort that puts the later of two equal counts first
sorted_by_count_reversing_ties(items) ==
    LET place == [ i \in DOMAIN items |->
                     Cardinality({ j \in DOMAIN items :
                        \/ items[j][2] > items[i][2]
                        \/ items[j][2] = items[i][2] /\ j >= i }) ]
    IN  [ n \in DOMAIN items |->
            items[CHOOSE i \in DOMAIN items : place[i] = n] ]

\* sorted(items, key=itemgetter(1), reverse=True), which heapq.nlargest
\* agrees with: by count, largest first, equal counts in the order of items
sorted_by_count(items) ==
    LET place == [ i \in DOMAIN items |->
                     Cardinality({ j \in DOMAIN items :
                        \/ items[j][2] > items[i][2]
                        \/ items[j][2] = items[i][2] /\ j <= i }) ]
    IN  [ n \in DOMAIN items |->
            items[CHOOSE i \in DOMAIN items : place[i] = n] ]

\* Counter.most_common(n)
most_common(counter, n) ==
    SubSeq(sorted_by_count(counter), 1, Min(n, Len(counter)))

\* [{"text": k, "value": v} for k, v in keyword_counter.most_common(50)]
top_keywords(counter) ==
    LET top == most_common(counter, MOST_COMMON_N)
    IN  [ i \in DOMAIN top |-> [ text |-> top[i][1], value |-> top[i][2] ] ]

---------------------------------------------------------------------------
(* Socket.IO and HTTP output                                               *)

\* socketio.emit(event, {"type": event, "data": data}): to every client
broadcast(event, data) == [ event |-> event, data |-> data, to |-> clients ]

\* emit(event, ...) inside a handler of client sid: to that client alone
emit(event, data, sid) == [ event |-> event, data |-> data, to |-> { sid } ]

\* return jsonify(body) of a route
response(route, body) == [ event |-> route, data |-> body, to |-> {} ]

---------------------------------------------------------------------------
(* Initial state: the module has been imported, __main__ has not run.      *)

Init ==
    /\ BEARER_TOKEN \in BOOLEAN
    /\ keyword_counter = << >>
    /\ recent_tweets = << >>
    /\ tweet_count = 0
    /\ connection_attempts = 0
    /\ start_time = -1          \* not assigned before __main__
    /\ clock = 0
    /\ pc = "init"
    /\ stream = "none"
    /\ sleeps = << >>
    /\ clients = {}
    /\ out = << >>
    /\ processed = << >>
    /\ thread = idle
    /\ tasks = << >>
    /\ call = no_call

\* the globals the reset command and on_tweet write
shared == << keyword_counter, recent_tweets, tweet_count, start_time >>

\* what only start_twitter_stream and the stream write
ingestion == << connection_attempts, pc, stream, sleeps >>

\* __main__: the server serves once this has run
main ==
    /\ pc = "init"
    /\ start_time' = clock
    /\ pc' = IF BEARER_TOKEN THEN "connecting" ELSE "not_started"
    /\ out' = << >>
    /\ UNCHANGED << thread, tasks, call, BEARER_TOKEN, keyword_counter,
                    recent_tweets, tweet_count, connection_attempts, clock,
                    stream, sleeps, clients, processed >>

\* time passes; no handler runs
Tick ==
    /\ clock < MaxClock
    /\ clock' = clock + 1
    /\ out' = << >>
    /\ UNCHANGED << thread, tasks, call, BEARER_TOKEN, shared, ingestion,
                    clients, processed >>

---------------------------------------------------------------------------
(* start_twitter_stream                                                    *)

\* a backoff without its cap
sleep_time_uncapped(attempts) == 2 ^ (attempts - 1)

\* sleep_time = min(120, 2 ** (connection_attempts - 1))
sleep_time(attempts) == Min(MAX_SLEEP, 2 ^ (attempts - 1))

\* one turn of the loop that ends in the except branch, up to time.sleep;
\* limit bounds the failures
connect_fails(limit) ==
    /\ pc = "connecting"
    /\ Len(sleeps) < limit
    /\ connection_attempts' = connection_attempts + 1
    /\ out' = << broadcast("error", "Twitter stream error") >>
    /\ sleeps' = Append(sleeps, sleep_time(connection_attempts'))
    /\ pc' = "sleeping"
    /\ UNCHANGED << thread, tasks, call, BEARER_TOKEN, shared, clock, stream,
                    clients, processed >>

\* time.sleep returns: the next turn of the loop
wake ==
    /\ pc = "sleeping"
    /\ pc' = "connecting"
    /\ out' = << >>
    /\ UNCHANGED << thread, tasks, call, BEARER_TOKEN, shared,
                    connection_attempts, clock, stream, sleeps, clients,
                    processed >>

\* a successful turn that resets the count of attempts
connect_succeeds_resetting ==
    /\ pc = "connecting"
    /\ connection_attempts' = 0
    /\ stream' = "running"
    /\ out' = << broadcast("connection", "connected") >>
    /\ pc' = "returned"
    /\ UNCHANGED << thread, tasks, call, BEARER_TOKEN, shared, clock, sleeps,
                    clients, processed >>

\* one turn of the loop that reaches break: stream.filter(threaded=True)
\* has started the stream in a thread of its own, the function returns
connect_succeeds ==
    /\ pc = "connecting"
    /\ connection_attempts' = connection_attempts + 1
    /\ stream' = "running"
    /\ out' = << broadcast("connection", "connected") >>
    /\ pc' = "returned"
    /\ UNCHANGED << thread, tasks, call, BEARER_TOKEN, shared, clock, sleeps,
                    clients, processed >>

---------------------------------------------------------------------------
(* TwitterStreamListener: the callbacks of the running stream              *)

\* str(n) of an int n >= 0: its decimal digits
RECURSIVE str(_)
str(n) == IF n < 10 THEN << 48 + n >> ELSE str(n \div 10) \o << 48 + (n % 10) >>

\* " ツイート/秒", " MB" and "秒"
RateUnit == << 32, 12484, 12452, 12540, 12488, 47, 31186 >>
MemoryUnit == << 32, 77, 66 >>
UptimeUnit == << 31186 >>

\* the values os.getpid() is drawn from
PIDS == { 1, 3145728 }

\* f"{os.getpid() // 1024 // 1024} MB"
memory_usage(pid) == str((pid \div 1024) \div 1024) \o MemoryUnit

\* system_stats of on_tweet; the division raises when no time has passed,
\* and its result is a float, which str writes with ".0"
system_stats(count, pid) ==
    [ processingRate |-> str(count \div (clock - start_time)) \o << 46, 48 >>
                         \o RateUnit,
      memoryUsage |-> memory_usage(pid),
      uptime |-> str(clock - start_time) \o UptimeUnit,
      analyzedTweets |-> str(count) ]

\* a cut that keeps the oldest entries
appended_keeping_oldest(tweets, tweet_data) ==
    LET all == Append(tweets, tweet_data)
    IN  IF Len(all) > MAX_TWEETS THEN SubSeq(all, 1, MAX_TWEETS) ELSE all

\* recent_tweets after recent_tweets.append(tweet_data) and the cut
appended(tweets, tweet_data) ==
    LET all == Append(tweets, tweet_data)
    IN  IF Len(all) > MAX_TWEETS
        THEN SubSeq(all, Len(all) - MAX_TWEETS + 1, Len(all)) ELSE all

\* a filter that publishes the record it drops
on_tweet_other_language_published(i) ==
    /\ Corpus[i].lang # "ja"
    /\ tweet_count' = tweet_count + 1
    /\ out' = << broadcast("tweet", [ id |-> Corpus[i].id,
                                      text |-> Corpus[i].text,
                                      keywords |-> << >> ]) >>
    /\ UNCHANGED << keyword_counter, recent_tweets, processed >>

\* on_tweet(Corpus[i]) for a record whose lang is not "ja"
on_tweet_other_language(i) ==
    /\ Corpus[i].lang # "ja"
    /\ tweet_count' = tweet_count + 1
    /\ out' = << >>
    /\ UNCHANGED << keyword_counter, recent_tweets, processed >>

\* on_tweet(Corpus[i]) for a record whose lang is "ja"
on_tweet_japanese(i) ==
    /\ Corpus[i].lang = "ja"
    /\ \E keywords \in extracted[i] :
          LET tweet == Corpus[i]
              counter == increment_all(keyword_counter, keywords)
              tweet_data == [ id |-> tweet.id, text |-> tweet.text,
                              keywords |-> keywords ]
              events == << broadcast("keywords", top_keywords(counter)),
                           broadcast("tweet", tweet_data) >>
          IN  /\ tweet_count' = tweet_count + 1
              /\ keyword_counter' = counter
              /\ recent_tweets' = appended(recent_tweets, tweet_data)
              /\ \E pid \in PIDS :
                    out' = IF tweet_count' % STATS_EVERY # 0 THEN events
                           ELSE IF clock = start_time
                           THEN events  \* ZeroDivisionError, caught and logged
                           ELSE Append(events,
                                  broadcast("stats",
                                            system_stats(tweet_count', pid)))
              /\ processed' = Append(processed, i)

\* on_tweet(Corpus[i]), while fewer than calls calls were made and fewer
\* than records records passed the filter since the last reset
on_tweet_within(i, calls, records) ==
    /\ stream = "running"
    /\ tweet_count < calls
    /\ Corpus[i].lang = "ja" => Len(processed) < records
    /\ on_tweet_other_language(i) \/ on_tweet_japanese(i)
    /\ UNCHANGED << thread, tasks, call, BEARER_TOKEN, start_time,
                    ingestion, clock, clients >>

on_tweet(i) == on_tweet_within(i, MaxCount, MaxProcessed)

\* logs only
on_error ==
    /\ stream = "running"
    /\ out' = << >>
    /\ UNCHANGED << thread, tasks, call, BEARER_TOKEN, shared, ingestion,
                    clock, clients, processed >>

\* tweepy calls it for a network error and then retries by itself
on_connection_error ==
    /\ stream = "running"
    /\ out' = << broadcast("error", "Twitter API connection error") >>
    /\ UNCHANGED << thread, tasks, call, BEARER_TOKEN, shared, ingestion,
                    clock, clients, processed >>

\* tweepy calls it when the stream's thread ends
on_disconnect ==
    /\ stream = "running"
    /\ stream' = "disconnected"
    /\ out' = << broadcast("connection", "disconnected") >>
    /\ UNCHANGED << thread, tasks, call, BEARER_TOKEN, shared,
                    connection_attempts, pc, sleeps, clock, clients,
                    processed >>

---------------------------------------------------------------------------
(* on_tweet, statement by statement.  tweepy runs the stream, and with it  *)
(* on_tweet, in a thread of its own (threaded=True); the routes and the    *)
(* Socket.IO handlers run in the server's threads.  No lock guards the     *)
(* globals, so the other threads' handlers can run between any two of the  *)
(* steps below.  thread holds the locals of the call under way.            *)

thread_frame == << tasks, call, BEARER_TOKEN, ingestion, clock, clients >>

\* tweet_count += 1, first half: the global is read
load_count(i) ==
    /\ stream = "running"
    /\ thread.pc = "idle"
    /\ tweet_count < MaxCount
    /\ Corpus[i].lang = "ja" => Len(processed) < MaxProcessed
    /\ thread' = [ idle EXCEPT !.pc = "count", !.i = i, !.count = tweet_count ]
    /\ out' = << >>
    /\ UNCHANGED << shared, processed, thread_frame >>

\* tweet_count += 1, second half: the sum is written; then the language
\* test
store_count ==
    /\ thread.pc = "count"
    /\ tweet_count' = thread.count + 1
    /\ IF Corpus[thread.i].lang # "ja"
       THEN thread' = idle /\ processed' = processed
       ELSE /\ thread' = [ thread EXCEPT !.pc = "extract" ]
            /\ processed' = Append(processed, thread.i)
    /\ out' = << >>
    /\ UNCHANGED << keyword_counter, recent_tweets, start_time, thread_frame >>

\* keywords = KeywordExtractor.extract_keywords(tweet.text)
extract ==
    /\ thread.pc = "extract"
    /\ \E keywords \in extracted[thread.i] :
          thread' = [ thread EXCEPT !.pc = "increment", !.keywords = keywords ]
    /\ out' = << >>
    /\ UNCHANGED << shared, processed, thread_frame >>

\* one turn of the for loop: keyword_counter[keyword] += 1, on the Counter
\* the global names now
increment_next ==
    /\ thread.pc = "increment"
    /\ thread.n < Len(thread.keywords)
    /\ keyword_counter' = increment(keyword_counter, thread.keywords[thread.n + 1])
    /\ thread' = [ thread EXCEPT !.n = thread.n + 1 ]
    /\ out' = << >>
    /\ UNCHANGED << recent_tweets, tweet_count, start_time, processed,
                    thread_frame >>

\* the loop is over: top_keywords and tweet_data are built
rank ==
    /\ thread.pc = "increment"
    /\ thread.n = Len(thread.keywords)
    /\ thread' = [ thread EXCEPT
                     !.pc = "append",
                     !.top_keywords = top_keywords(keyword_counter),
                     !.tweet_data = [ id |-> Corpus[thread.i].id,
                                      text |-> Corpus[thread.i].text,
                                      keywords |-> thread.keywords ] ]
    /\ out' = << >>
    /\ UNCHANGED << shared, processed, thread_frame >>

\* recent_tweets.append(tweet_data) and the cut
append ==
    /\ thread.pc = "append"
    /\ recent_tweets' = appended(recent_tweets, thread.tweet_data)
    /\ thread' = [ thread EXCEPT !.pc = "emit_keywords" ]
    /\ out' = << >>
    /\ UNCHANGED << keyword_counter, tweet_count, start_time, processed,
                    thread_frame >>

\* socketio.emit('keywords', ...)
emit_keywords ==
    /\ thread.pc = "emit_keywords"
    /\ out' = << broadcast("keywords", thread.top_keywords) >>
    /\ thread' = [ thread EXCEPT !.pc = "emit_tweet" ]
    /\ UNCHANGED << shared, processed, thread_frame >>

\* socketio.emit('tweet', ...), the stats every tenth tweet_count, return
emit_tweet ==
    /\ thread.pc = "emit_tweet"
    /\ \E pid \in PIDS :
          out' = IF tweet_count % STATS_EVERY # 0 \/ clock = start_time
                 THEN << broadcast("tweet", thread.tweet_data) >>
                 ELSE << broadcast("tweet", thread.tweet_data),
                         broadcast("stats", system_stats(tweet_count, pid)) >>
    /\ thread' = idle
    /\ UNCHANGED << shared, processed, thread_frame >>

---------------------------------------------------------------------------
(* Flask routes                                                            *)

index ==
    /\ pc # "init"
    /\ out' = << response("/", "OK") >>
    /\ UNCHANGED << thread, tasks, call, BEARER_TOKEN, shared, ingestion,
                    clock, clients, processed >>

get_keywords ==
    /\ pc # "init"
    /\ out' = << response("/api/keywords", top_keywords(keyword_counter)) >>
    /\ UNCHANGED << thread, tasks, call, BEARER_TOKEN, shared, ingestion,
                    clock, clients, processed >>

get_tweets ==
    /\ pc # "init"
    /\ out' = << response("/api/tweets", recent_tweets) >>
    /\ UNCHANGED << thread, tasks, call, BEARER_TOKEN, shared, ingestion,
                    clock, clients, processed >>

\* the body of /api/stats
stats_body(pid) ==
    [ processingRate |-> str(tweet_count \div Max(1, clock - start_time))
                         \o RateUnit,
      memoryUsage |-> memory_usage(pid),
      uptime |-> str(clock - start_time) \o UptimeUnit,
      analyzedTweets |-> str(tweet_count) ]

\* a stats route that starts a new measuring interval at each call
get_stats_restarting ==
    /\ pc # "init"
    /\ \E pid \in PIDS : out' = << response("/api/stats", stats_body(pid)) >>
    /\ start_time' = clock
    /\ UNCHANGED << thread, tasks, call, BEARER_TOKEN, keyword_counter,
                    recent_tweets, tweet_count, ingestion, clock, clients,
                    processed >>

get_stats ==
    /\ pc # "init"
    /\ \E pid \in PIDS : out' = << response("/api/stats", stats_body(pid)) >>
    /\ UNCHANGED << thread, tasks, call, BEARER_TOKEN, shared, ingestion,
                    clock, clients, processed >>

---------------------------------------------------------------------------
(* Socket.IO events                                                        *)

\* a client connects; it is given the next session id
on_socket_connect ==
    /\ pc # "init"
    /\ Cardinality(clients) < MaxClients
    /\ LET sid == Cardinality(clients) + 1
       IN  /\ clients' = clients \cup { sid }
           /\ out' = << emit("keywords", top_keywords(keyword_counter), sid),
                        emit("connection", "connected", sid) >>
    /\ UNCHANGED << thread, tasks, call, BEARER_TOKEN, shared, ingestion,
                    clock, processed >>

\* what on_reset emits to the client that asked
reset_events(sid) ==
    << emit("keywords", << >>, sid),
       emit("stats", [ processingRate |-> str(0) \o RateUnit,
                       memoryUsage |-> str(0) \o MemoryUnit,
                       uptime |-> str(0) \o UptimeUnit,
                       analyzedTweets |-> str(0) ], sid) >>

on_reset(sid) ==
    /\ sid \in clients
    /\ keyword_counter' = << >>
    /\ recent_tweets' = << >>
    /\ tweet_count' = 0
    /\ start_time' = clock
    /\ out' = reset_events(sid)
    /\ processed' = << >>
    \* history: an on_tweet that is under way began before this reset
    /\ thread' = [ thread EXCEPT !.stale = thread.pc # "idle" ]
    /\ UNCHANGED << tasks, call, BEARER_TOKEN, ingestion, clock, clients >>

\* logs only
on_filters(sid) ==
    /\ sid \in clients
    /\ out' = << >>
    /\ UNCHANGED << thread, tasks, call, BEARER_TOKEN, shared, ingestion,
                    clock, clients, processed >>

---------------------------------------------------------------------------

(* KeywordExtractor, called by itself on a text.                           *)

\* the texts of length 0..n over alphabet
Strings(alphabet, n) == UNION { [ 1..k -> alphabet ] : k \in 0..n }

MaxCleanLen == 7
MaxTokenLen == 4

\* "R", "T", " " and "x": what the RT prefix is made of, and another letter
CleanAlphabet == { 82, 84, 32, 120 }

\* a character of each class of get_char_type ("ア", "朝", "a", "!") and
\* two of hiragana ("あ", "い"), number ("1", "０") and space (" ", "　")
TokenAlphabet ==
    { 12354, 12356,  12450,  26397,  97,  49, 65296,  32, 12288,  33 }

\* "これはすごい朝ですRT @user https://x.co/abc #tag"
ExampleText ==
    << 12371, 12428, 12399, 12377, 12372, 12356, 26397, 12391, 12377, 82,
       84, 32, 64, 117, 115, 101, 114, 32, 104, 116,
       116, 112, 115, 58, 47, 47, 120, 46, 99, 111,
       47, 97, 98, 99, 32, 35, 116, 97, 103 >>

Inputs ==
    Strings(CleanAlphabet, MaxCleanLen) \cup Strings(TokenAlphabet, MaxTokenLen)
    \cup { ExampleText }

\* as Init, with the text the function is going to be called on
TextInit ==
    /\ BEARER_TOKEN = FALSE
    /\ keyword_counter = << >>
    /\ recent_tweets = << >>
    /\ tweet_count = 0
    /\ connection_attempts = 0
    /\ start_time = -1
    /\ clock = 0
    /\ pc = "init"
    /\ stream = "none"
    /\ sleeps = << >>
    /\ clients = {}
    /\ out = << >>
    /\ processed = << >>
    /\ thread = idle
    /\ tasks = << >>
    /\ \E text \in Inputs : call = [ no_call EXCEPT !.arg = text ]

call_frame == << BEARER_TOKEN, keyword_counter, recent_tweets, tweet_count,
                 connection_attempts, start_time, clock, pc, stream, sleeps,
                 clients, out, processed, thread, tasks >>

call_clean_text ==
    /\ call.fn = "none"
    /\ call' = [ call EXCEPT !.fn = "clean_text", !.ret = clean_text(call.arg) ]
    /\ UNCHANGED call_frame

call_tokenize_japanese ==
    /\ call.fn = "none"
    /\ call' = [ call EXCEPT !.fn = "tokenize_japanese",
                             !.ret = tokenize_japanese(call.arg) ]
    /\ UNCHANGED call_frame

call_extract_keywords ==
    /\ call.fn = "none"
    /\ \E keywords \in extract_keywords(call.arg) :
          call' = [ call EXCEPT !.fn = "extract_keywords", !.ret = keywords ]
    /\ UNCHANGED call_frame

---------------------------------------------------------------------------
(* kyomei-live: a viewer's connect starts a background task that runs     *)
(* fetch_and_push_words.  The tasks are eventlet green threads: one runs   *)
(* until it waits (in the HTTP request of search_recent_tweets, in         *)
(* socketio.sleep), then another may run.                                  *)

\* What SudachiPy makes of the text of a fetched tweet is given with the
\* tweet: the surfaces m.surface() of its morphemes whose part of speech is
\* 名詞 or 形容詞, in text order, or that tokenize raises.
LiveBatch ==
    << [ id |-> 11, words |-> << << 31048, 12426 >>, << 24179, 21644 >> >>,
         raises |-> FALSE ],
       [ id |-> 12, words |-> << >>, raises |-> TRUE ],
       [ id |-> 13, words |-> << << 20849, 40180 >> >>, raises |-> FALSE ] >>

\* response.data: None, or the tweets found
Responses == { << >>, << LiveBatch[1] >>, LiveBatch }

\* turns of the loop of one task
MaxCycles == 2

\* socketio.start_background_task(fetch_and_push_words): not yet scheduled
spawned == [ pc |-> "spawned", cycle |-> 0, data |-> << >>, k |-> 0,
             emitted |-> << >> ]

\* socketio.emit("new_word", word) for each word
new_words(words) == [ n \in DOMAIN words |-> broadcast("new_word", words[n]) ]

live_frame == << BEARER_TOKEN, keyword_counter, recent_tweets, tweet_count,
                 connection_attempts, start_time, clock, pc, stream, sleeps,
                 processed, thread, call >>

\* a viewer connects: one more task
handle_connect ==
    /\ Cardinality(clients) < MaxClients
    /\ clients' = clients \cup { Cardinality(clients) + 1 }
    /\ tasks' = Append(tasks, spawned)
    /\ out' = << >>
    /\ UNCHANGED live_frame

\* the task enters a turn of the loop and calls client.search_recent_tweets,
\* with whatever BEARER_TOKEN is, and waits for the answer
fetch(t) ==
    /\ \/ tasks[t].pc = "spawned"
       \/ tasks[t].pc = "sleeping" /\ tasks[t].cycle < MaxCycles
    /\ tasks' = [ tasks EXCEPT ![t] = [ pc |-> "fetching",
                                         cycle |-> tasks[t].cycle + 1,
                                         data |-> << >>, k |-> 0,
                                         emitted |-> << >> ] ]
    /\ out' = << >>
    /\ UNCHANGED << clients, live_frame >>

\* the request is answered: the for loop starts, or response.data is empty
\* and the task goes to socketio.sleep(120)
fetch_returns(t) ==
    /\ tasks[t].pc = "fetching"
    /\ BEARER_TOKEN
    /\ \E data \in Responses :
          tasks' = [ tasks EXCEPT ![t].data = data,
                                  ![t].k = 1,
                                  ![t].pc = IF data = << >> THEN "sleeping"
                                            ELSE "processing" ]
    /\ out' = << >>
    /\ UNCHANGED << clients, live_frame >>

\* the request raises (the source is down, or refuses the request for its
\* credential): except prints the error, then socketio.sleep(120)
fetch_raises(t) ==
    /\ tasks[t].pc = "fetching"
    /\ tasks' = [ tasks EXCEPT ![t].pc = "sleeping" ]
    /\ out' = << >>
    /\ UNCHANGED << clients, live_frame >>

\* one turn of the for loop over response.data; an exception leaves the
\* loop for the except branch of the try around it.  Whether socketio.emit
\* lets another green thread run is the server's affair: the turns of two
\* tasks may alternate or not.
push_words(t) ==
    /\ tasks[t].pc = "processing"
    /\ LET tweet == tasks[t].data[tasks[t].k]
           last == tasks[t].k = Len(tasks[t].data)
       IN  IF tweet.raises
           THEN /\ tasks' = [ tasks EXCEPT ![t].pc = "sleeping" ]
                /\ out' = << >>
           ELSE /\ tasks' = [ tasks EXCEPT
                                ![t].emitted = tasks[t].emitted \o tweet.words,
                                ![t].k = tasks[t].k + 1,
                                ![t].pc = IF last THEN "sleeping"
                                          ELSE "processing" ]
                /\ out' = new_words(tweet.words)
    /\ UNCHANGED << clients, live_frame >>

---------------------------------------------------------------------------

(* The whole server, with few failed attempts and the short records.      *)

Next ==
    \/ main
    \/ Tick
    \/ connect_fails(MaxFailures)
    \/ wake
    \/ connect_succeeds
    \/ \E i \in ShortRecords : on_tweet(i)
    \/ on_error
    \/ on_connection_error
    \/ on_disconnect
    \/ index
    \/ get_keywords
    \/ get_tweets
    \/ get_stats
    \/ on_socket_connect
    \/ \E sid \in clients : on_reset(sid)
    \/ \E sid \in clients : on_filters(sid)

Spec == Init /\ [][Next]_vars

(* The ingestion alone: start_twitter_stream through many failures, the    *)
(* stream's callbacks but on_tweet, and the clients that connect.          *)

BackoffNext ==
    \/ main
    \/ Tick
    \/ connect_fails(MaxBackoff)
    \/ wake
    \/ connect_succeeds
    \/ on_error
    \/ on_connection_error
    \/ on_disconnect
    \/ on_socket_connect

\* time.sleep returns
BackoffSpec == Init /\ [][BackoffNext]_vars /\ WF_vars(wake)

(* The ranking: every record that passes the language filter, the wide    *)
(* one too, with the handlers that read or clear the frequency table;     *)
(* the first connection attempt succeeds.                                 *)

RankingNext ==
    \/ main
    \/ connect_succeeds
    \/ \E i \in JapaneseRecords : on_tweet(i)
    \/ get_keywords
    \/ on_socket_connect
    \/ \E sid \in clients : on_reset(sid)

RankingSpec == Init /\ [][RankingNext]_vars

(* The history: more than MAX_TWEETS records between two resets.  The     *)
(* first record and the ones from the 100th on are any short Japanese      *)
(* record, the ones between are the record with id 1.                      *)

HistoryNext ==
    \/ main
    \/ connect_succeeds
    \/ \E i \in ShortRecords \cap JapaneseRecords :
          /\ Len(processed) \in 1..(MAX_TWEETS - 2) => i = 1
          /\ on_tweet_within(i, MaxHistory, MaxHistory)
    \/ get_tweets
    \/ on_socket_connect
    \/ \E sid \in clients : on_reset(sid)

HistorySpec == Init /\ [][HistoryNext]_vars

(* The functions of KeywordExtractor on the texts of Inputs.               *)

TextNext ==
    \/ call_clean_text
    \/ call_tokenize_japanese
    \/ call_extract_keywords

TextSpec == TextInit /\ [][TextNext]_vars

(* kyomei-live alone.                                                      *)

LiveNext ==
    \/ handle_connect
    \/ \E t \in DOMAIN tasks : fetch(t)
    \/ \E t \in DOMAIN tasks : fetch_returns(t)
    \/ \E t \in DOMAIN tasks : fetch_raises(t)
    \/ \E t \in DOMAIN tasks : push_words(t)

LiveSpec == Init /\ [][LiveNext]_vars

(* The stream's thread against the server's threads: on_tweet statement   *)
(* by statement, with the handlers that read or clear the globals.         *)

ThreadNext ==
    \/ main
    \/ connect_succeeds
    \/ \E i \in ShortRecords : load_count(i)
    \/ store_count
    \/ extract
    \/ increment_next
    \/ rank
    \/ append
    \/ emit_keywords
    \/ emit_tweet
    \/ get_keywords
    \/ on_socket_connect
    \/ \E sid \in clients : on_reset(sid)

ThreadSpec == Init /\ [][ThreadNext]_vars

---------------------------------------------------------------------------
(* Backoff and reconnection (start_twitter_stream).                        *)

\* the delay the i-th failed attempt is to be followed by: 1, 2, 4, ...,
\* 64, then 120
ExpectedDelay(i) == IF i <= 7 THEN 2 ^ (i - 1) ELSE 120

\* C1: the i-th failed connection attempt since process start is followed
\* by a sleep of min(120, 2^(i-1)) seconds, so the delays never decrease
\* and never exceed 120; a failed attempt always leads to the sleep, the
\* sleep only to a new attempt, and the sleep ends: the loop does not stop
\* while attempts fail.
C1_BackoffSchedule ==
    /\ [](\A i \in DOMAIN sleeps :
            /\ sleeps[i] = ExpectedDelay(i)
            /\ sleeps[i] <= 120
            /\ i > 1 => sleeps[i - 1] <= sleeps[i])
    /\ [](Len(sleeps) = connection_attempts - (IF pc = "returned" THEN 1 ELSE 0))
    /\ [][Len(sleeps') > Len(sleeps) => pc' = "sleeping"]_vars
    /\ [][pc = "sleeping" => pc' \in { "sleeping", "connecting" }]_vars
    /\ (pc = "sleeping" ~> pc = "connecting")

\* the eighth failure has been followed by the capped delay and the loop
\* is at its next attempt
C1_Witness ==
    /\ Len(sleeps) = 8
    /\ sleeps[5] = 16
    /\ sleeps[8] = 120
    /\ pc = "connecting"

\* C2: once the stream has failed after a successful connect (tweepy has
\* ended it and called on_disconnect), the loop is backing off or at a new
\* connection attempt.
C2_FailureWhileActiveReconnects ==
    stream = "disconnected" => pc \in { "sleeping", "connecting" }

\* C3 as stated: when the loop has become active, connection_attempts is 0.
C3_ResetOnConnect ==
    stream = "running" => connection_attempts = 0

\* C3, amended: a successful attempt does not reset connection_attempts;
\* it stays the number of attempts made since process start, the failed
\* ones and the successful one.
C3_AttemptsSinceStart ==
    stream # "none" => connection_attempts = Len(sleeps) + 1

\* the loop became active at its fourth attempt
C3_Witness ==
    /\ stream = "running"
    /\ pc = "returned"
    /\ Len(sleeps) = 3
    /\ connection_attempts = 4

---------------------------------------------------------------------------
(* Records, counts and ranking (on_tweet, on_reset, the routes).           *)

\* the words the records can yield, and those the table holds
Words ==
    UNION { Range(accepted[i]) : i \in DOMAIN Corpus }
    \cup { keyword_counter[n][1] : n \in DOMAIN keyword_counter }

\* how often word occurs in list
Occurrences(word, list) == Cardinality({ k \in DOMAIN list : list[k] = word })

\* the occurrences of word in the keyword lists of the records n..Len(processed)
RECURSIVE AcceptedOccurrences(_, _)
AcceptedOccurrences(word, n) ==
    IF n > Len(processed) THEN 0
    ELSE Occurrences(word, accepted[processed[n]])
         + AcceptedOccurrences(word, n + 1)

\* C4: handling a record whose id is already in the history of processed
\* records changes neither the frequency table nor tweet_count and emits
\* nothing.
C4_DuplicateDropped ==
    [][\A i \in ShortRecords :
          (/\ on_tweet(i)
           /\ \E n \in DOMAIN recent_tweets : recent_tweets[n].id = Corpus[i].id)
          => (/\ keyword_counter' = keyword_counter
              /\ tweet_count' = tweet_count
              /\ out' = << >>)]_vars

\* C5 as stated: the count of a word is the number of its accepted
\* occurrences in the records processed since the last reset, the repeated
\* ones inside a record too.
C5_CountIsOccurrences ==
    \A word \in Words :
        count_of(keyword_counter, word) = AcceptedOccurrences(word, 1)

\* C5, amended: the count of a word is the number of records processed
\* since the last reset in which the word was accepted at least once.
C5_CountIsRecords ==
    \A word \in Words :
        count_of(keyword_counter, word) =
            Cardinality({ n \in DOMAIN processed :
                            word \in Range(accepted[processed[n]]) })

\* the record with 平和 twice was processed twice: 平和 counts 2, not 4
C5_Witness ==
    /\ processed = << 1, 1 >>
    /\ Occurrences(<< 24179, 21644 >>, accepted[1]) = 2
    /\ count_of(keyword_counter, << 24179, 21644 >>) = 2

\* C6: a step after which some word counts less than before (or is gone
\* from the table) is a reset, and a reset leaves every count at 0.
C6_CountsDropOnlyAtReset ==
    [][/\ (\E n \in DOMAIN keyword_counter :
              count_of(keyword_counter', keyword_counter[n][1])
                 < keyword_counter[n][2])
          => \E sid \in clients : on_reset(sid)
       /\ (\E sid \in clients : on_reset(sid))
          => /\ \A n \in DOMAIN keyword_counter :
                   count_of(keyword_counter', keyword_counter[n][1]) = 0
             /\ \A n \in DOMAIN keyword_counter' :
                   keyword_counter'[n][2] = 0]_vars

\* counts have grown from 0 over 1 to 2 and a client can send the reset
C6_Witness ==
    /\ processed = << 2, 2 >>
    /\ \A n \in DOMAIN keyword_counter : keyword_counter[n][2] = 2
    /\ count_of(keyword_counter, << 31048 >>) = 2
    /\ clients # {}

\* the place of word among the keys of the table: the order in which the
\* words were first incremented since the last reset (a dict keeps its keys
\* in insertion order, and no key is deleted)
FirstIncrement(word) ==
    CHOOSE n \in DOMAIN keyword_counter : keyword_counter[n][1] = word

\* ranking is a ranking snapshot of the table
IsRanking(ranking) ==
    /\ Len(ranking) <= 50
    /\ Len(ranking) = Min(50, Len(keyword_counter))
    /\ \A n \in DOMAIN ranking :
          \E k \in DOMAIN keyword_counter :
             keyword_counter[k][1] = ranking[n].text
    /\ LET first == [ n \in DOMAIN ranking |-> FirstIncrement(ranking[n].text) ]
       IN  /\ \A n \in DOMAIN ranking :
                 ranking[n].value = keyword_counter[first[n]][2]
           /\ \A n, m \in DOMAIN ranking :
                 n < m =>
                   /\ first[n] # first[m]
                   /\ ranking[n].value >= ranking[m].value
                   /\ ranking[n].value = ranking[m].value => first[n] < first[m]
           /\ \A k \in DOMAIN keyword_counter :
                 k \notin { first[n] : n \in DOMAIN ranking }
                 => \A n \in DOMAIN ranking :
                       keyword_counter[k][2] <= ranking[n].value

\* the ranking snapshots the last step emitted or returned
Snapshots ==
    { out[n].data : n \in { k \in DOMAIN out :
                              out[k].event \in { "keywords", "/api/keywords" } } }

\* C7: the snapshot of the table and every snapshot emitted by on_tweet and
\* on_socket_connect or returned by /api/keywords has at most 50 entries,
\* sorted by count, largest first, leaves out no word that counts more than
\* one it holds, and orders equal counts by first increment.
C7_RankingSnapshot ==
    /\ IsRanking(top_keywords(keyword_counter))
    /\ \A ranking \in Snapshots : IsRanking(ranking)

\* on_tweet emitted a full ranking of a table of more than 50 words, led by
\* a word that was the 51st to be incremented and counts 2
C7_Witness ==
    /\ Len(keyword_counter) > 50
    /\ out # << >>
    /\ out[1].event = "keywords"
    /\ Len(out) = 2
    /\ Len(out[1].data) = 50
    /\ out[1].data[1].value = 2
    /\ FirstIncrement(out[1].data[1].text) = 51
    /\ out[1].data[2].value = 1

\* C8: a reset empties the table, sets tweet_count to 0, restarts
\* start_time and emits a ranking event with no entries to the connected
\* clients.
C8_ResetSeenByViewers ==
    [][\A sid \in clients :
          on_reset(sid)
          => /\ keyword_counter' = << >>
             /\ tweet_count' = 0
             /\ start_time' = clock
             /\ \E n \in DOMAIN out' :
                   /\ out'[n].event = "keywords"
                   /\ out'[n].data = << >>
                   /\ out'[n].to = clients]_vars

\* the step returned the response of one of the three query routes
IsQuery(output) ==
    /\ Len(output) = 1
    /\ output[1].event \in { "/api/stats", "/api/keywords", "/api/tweets" }

QueriesReadOnly ==
    IsQuery(out') =>
        UNCHANGED << keyword_counter, recent_tweets, tweet_count, start_time,
                     connection_attempts >>

\* the four fields of the stats result
StatsFields == { "processingRate", "memoryUsage", "uptime", "analyzedTweets" }

\* C9 as stated: the three queries change nothing, and the stats result
\* reports tweet_count, the uptime and, in a field of its own,
\* connection_attempts.
C9_StatsReportsAttempts ==
    [][/\ QueriesReadOnly
       /\ (IsQuery(out') /\ out'[1].event = "/api/stats")
          => /\ out'[1].data.analyzedTweets = str(tweet_count)
             /\ out'[1].data.uptime = str(clock - start_time) \o UptimeUnit
             /\ \E f \in DOMAIN out'[1].data \ StatsFields :
                   out'[1].data[f] \in { connection_attempts,
                                         str(connection_attempts) }]_vars

\* C9, amended: the three queries change nothing, and the stats result
\* reports tweet_count, the uptime, a processing rate and a memory figure,
\* and nothing else: connection_attempts is not in it.
C9_QueriesReadOnly ==
    [][/\ QueriesReadOnly
       /\ (IsQuery(out') /\ out'[1].event = "/api/stats")
          => /\ out'[1].data.analyzedTweets = str(tweet_count)
             /\ out'[1].data.uptime = str(clock - start_time) \o UptimeUnit
             /\ DOMAIN out'[1].data = StatsFields]_vars

\* /api/stats answered after two records, a clock tick and two connection
\* attempts
C9_Witness ==
    /\ IsQuery(out)
    /\ out[1].event = "/api/stats"
    /\ out[1].data.analyzedTweets = str(2)
    /\ out[1].data.uptime = << 49, 31186 >>
    /\ tweet_count = 2
    /\ clock - start_time = 1
    /\ connection_attempts = 2
    /\ keyword_counter # << >>

\* C10: tweet_count is the number of records since the last reset that
\* passed the language filter and were extracted and counted.
C10_CountsProcessedOnly ==
    tweet_count = Len(processed)

---------------------------------------------------------------------------
(* The language filter (on_tweet).                                         *)

\* C11: handling a record whose lang is not "ja" leaves the frequency
\* table and the recent-tweet history as they are and emits nothing.
C11_OtherLanguageDropped ==
    [][\A i \in ShortRecords :
          (on_tweet(i) /\ Corpus[i].lang # "ja")
          => /\ keyword_counter' = keyword_counter
             /\ recent_tweets' = recent_tweets
             /\ out' = << >>]_vars

\* a record in another language was handled after a Japanese one: it was
\* counted in tweet_count, and table and history hold the Japanese one
C11_Witness ==
    /\ tweet_count = 2
    /\ processed = << 2 >>
    /\ Len(recent_tweets) = 1
    /\ recent_tweets[1].id = 2
    /\ count_of(keyword_counter, << 31048 >>) = 1
    /\ out = << >>
    /\ clock = 0

---------------------------------------------------------------------------
(* Credential, tasks and batches (__main__, kyomei-live).                  *)

\* C12: without BEARER_TOKEN no task ever calls the source.
C12_NoFetchWithoutCredential ==
    ~BEARER_TOKEN => \A t \in DOMAIN tasks : tasks[t].cycle = 0

\* the tasks that are inside a cycle: between the call of the source and
\* the last emit of the batch
InCycle == { t \in DOMAIN tasks : tasks[t].pc \in { "fetching", "processing" } }

\* C13: there is at most one ingestion task, so no cycle runs while another
\* cycle is under way.
C13_OneIngestionTask ==
    /\ Len(tasks) <= 1
    /\ Cardinality(InCycle) <= 1

\* the words of the tweets of data[k..] that tokenize does not raise on
RECURSIVE WordsOfSound(_, _)
WordsOfSound(data, k) ==
    IF k > Len(data) THEN << >>
    ELSE (IF data[k].raises THEN << >> ELSE data[k].words)
         \o WordsOfSound(data, k + 1)

\* C15: when a cycle is over, the words of every tweet of its batch but the
\* ones whose processing raised have been emitted.
C15_OffenderDroppedAlone ==
    \A t \in DOMAIN tasks :
        tasks[t].pc = "sleeping"
        => tasks[t].emitted = WordsOfSound(tasks[t].data, 1)

---------------------------------------------------------------------------
(* The stream's thread and the server's threads (on_tweet, on_reset, the   *)
(* snapshots).                                                             *)

\* the last step was /api/keywords or on_socket_connect: out holds the
\* snapshot it took of the table as it is now
ViewerSnapshot ==
    /\ out # << >>
    /\ \/ out[1].event = "/api/keywords"
       \/ out[1].event = "keywords" /\ Len(out) = 2
          /\ out[2].event = "connection"

\* the table holds some but not all of the increments of the record that
\* on_tweet is at
PartialUpdate ==
    /\ thread.pc = "increment"
    /\ 0 < thread.n
    /\ thread.n < Len(thread.keywords)

\* C14: a viewer's snapshot is never taken of a table that holds some but
\* not all of the increments of a record.
C14_SnapshotsSerialized ==
    ViewerSnapshot => ~PartialUpdate

\* C19: a call of on_tweet that began before a reset does nothing to
\* tweet_count, recent_tweets and the table after that reset and emits no
\* ranking event after it.
C19_ResetAtomic ==
    [][(thread.stale /\ thread' # thread)
       => /\ UNCHANGED << tweet_count, recent_tweets, keyword_counter >>
          /\ \A n \in DOMAIN out' : out'[n].event # "keywords"]_vars

---------------------------------------------------------------------------
(* Cleaning, segmentation and extraction (KeywordExtractor).               *)

\* C16: cleaning a cleaned text gives the same text.
C16_CleanIdempotent ==
    call.fn = "clean_text" => clean_text(call.ret) = call.ret

\* "これはすごい", "朝", "すごい", "これ"
KoreWaSugoi == << 12371, 12428, 12399, 12377, 12372, 12356 >>
Asa == << 26397 >>
Sugoi == << 12377, 12372, 12356 >>
Kore == << 12371, 12428 >>

\* C17 as stated: the keywords of the example text contain 朝 and すごい and
\* do not contain これ.
C17_ExampleAcceptsSugoi ==
    (call.fn = "extract_keywords" /\ call.arg = ExampleText)
    => /\ Asa \in Range(call.ret)
       /\ Sugoi \in Range(call.ret)
       /\ Kore \notin Range(call.ret)

\* C17, amended: cleaning the example text leaves これはすごい朝です, the
\* segmentation of the text starts with これはすごい, 朝 and です, and the
\* keywords are 朝 and the whole hiragana run これはすごい: neither すごい
\* nor これ is among them.
C17_ExampleKeywords ==
    call.arg = ExampleText
    => /\ call.fn = "clean_text"
          => call.ret = KoreWaSugoi \o Asa \o << 12391, 12377 >>
       /\ call.fn = "tokenize_japanese"
          => /\ call.ret[1] = KoreWaSugoi
             /\ call.ret[2] = Asa
             /\ call.ret[3] = << 12391, 12377 >>
       /\ call.fn = "extract_keywords"
          => /\ Range(call.ret) = { Asa, KoreWaSugoi }
             /\ Len(call.ret) = 2
             /\ Sugoi \notin Range(call.ret)
             /\ Kore \notin Range(call.ret)

\* extract_keywords has returned for the example text
C17_Witness ==
    /\ call.fn = "extract_keywords"
    /\ call.arg = ExampleText
    /\ call.ret = << Asa, KoreWaSugoi >>

\* where the k-th token starts in text if the tokens are its runs: at the
\* first character that is not whitespace after the token before it
RECURSIVE TokenStart(_, _, _)
TokenStart(text, tokens, k) ==
    SkipSpace(text, IF k = 1 THEN 1
                    ELSE TokenStart(text, tokens, k - 1) + Len(tokens[k - 1]))

\* the concatenation of the tokens k..
RECURSIVE Concatenation(_, _)
Concatenation(tokens, k) ==
    IF k > Len(tokens) THEN << >>
    ELSE tokens[k] \o Concatenation(tokens, k + 1)

\* the class of a token: that of its first character
TokenClass(token) == get_char_type(token[1])

\* tokens are the maximal runs of one class of text, in text order
IsSegmentation(text, tokens) ==
    /\ \A k \in DOMAIN tokens :
          LET token == tokens[k]
              start == TokenStart(text, tokens, k)
          IN  /\ token # << >>
              /\ \A j \in DOMAIN token :
                    /\ ~IsSpace(token[j])
                    /\ get_char_type(token[j]) # "space"
                    /\ get_char_type(token[j]) = TokenClass(token)
              /\ start + Len(token) - 1 <= Len(text)
              /\ SubSeq(text, start, start + Len(token) - 1) = token
              /\ start > 1 => get_char_type(text[start - 1]) # TokenClass(token)
              /\ start + Len(token) <= Len(text)
                 => get_char_type(text[start + Len(token)]) # TokenClass(token)
              /\ k > 1 =>
                    \/ TokenClass(tokens[k - 1]) # TokenClass(token)
                    \/ /\ TokenStart(text, tokens, k - 1) + Len(tokens[k - 1])
                          < start
                       /\ IsSpace(text[start - 1])
    /\ LET end == IF tokens = << >> THEN 1
                  ELSE TokenStart(text, tokens, Len(tokens))
                       + Len(tokens[Len(tokens)])
       IN  SkipSpace(text, end) = Len(text) + 1
    /\ Concatenation(tokens, 1) = SelectSeq(text, LAMBDA c : ~IsSpace(c))

\* C18: tokenize_japanese returns the maximal runs of characters of one
\* class, in text order: no token is empty or holds whitespace, a token's
\* characters share one class, neighbours differ in class or have
\* whitespace between them, and the tokens together are the text without
\* its whitespace.
C18_MaximalRuns ==
    call.fn = "tokenize_japanese" => IsSegmentation(call.arg, call.ret)

\* "あい1０": two runs of two different characters of one class each
C18_Witness ==
    /\ call.fn = "tokenize_japanese"
    /\ call.arg = << 12354, 12356, 49, 65296 >>
    /\ call.ret = << << 12354, 12356 >>, << 49, 65296 >> >>

---------------------------------------------------------------------------
(* The recent-tweet history (on_tweet).                                    *)

\* C20: recent_tweets holds at most 100 entries: the last 100 (or all, if
\* fewer) of the Japanese records processed since the last reset, in the
\* order they were processed.
C20_HistoryRing ==
    /\ Len(recent_tweets) <= 100
    /\ Len(recent_tweets) = Min(100, Len(processed))
    /\ \A n \in DOMAIN recent_tweets :
          LET i == processed[Len(processed) - Len(recent_tweets) + n]
          IN  /\ recent_tweets[n].id = Corpus[i].id
              /\ recent_tweets[n].text = Corpus[i].text
              /\ recent_tweets[n].keywords \in extracted[i]

\* 102 records were processed, the first and the last with id 2: the two
\* oldest have left the history, the last one is at its end
C20_Witness ==
    /\ Len(processed) = 102
    /\ processed[1] = 2
    /\ processed[102] = 2
    /\ Len(recent_tweets) = 100
    /\ recent_tweets[1].id = 1
    /\ recent_tweets[100].id = 2
    /\ \A n \in 1..99 : recent_tweets[n].id = 1

===========================================================================
